---- MODULE Spec2Model ----
(***************************************************************************)
(* A model of android::pdx::uds::ServiceDispatcher                         *)
(* (libs/vr/libpdx_uds/service_dispatcher.cpp).                            *)
(*                                                                         *)
(* The dispatcher multiplexes the readiness of registered services onto    *)
(* the threads that call ReceiveAndDispatch / EnterDispatchLoop.  The      *)
(* state is the object's fields plus, per thread, the position of the      *)
(* thread in the method it executes and the method's locals.               *)
(*                                                                         *)
(* Atomicity.  A method that holds mutex_ from its first to its last       *)
(* statement and has at most one effect visible to threads that do not     *)
(* hold the mutex (an epoll_ctl, an eventfd write or read) is one action,  *)
(* enabled when the mutex is free.  SetCanceled is split where threads     *)
(* outside the mutex can observe it: after the store to canceled_ (read    *)
(* without the mutex by IsCanceled), and where condition_.wait releases    *)
(* the mutex.  epoll_wait, the read of canceled_ in the loop condition     *)
(* and the service callback run without the mutex and are steps of their   *)
(* own.                                                                    *)
(***************************************************************************)
EXTENDS Integers, Sequences, FiniteSets, TLC

\* errno values used by the dispatcher (returned negated).
ENOENT == 2
EINTR == 4
EBADF == 9
ENOMEM == 12
EBUSY == 16
EEXIST == 17
EINVAL == 22
ETIMEDOUT == 110

\* static const int kMaxEventsPerLoop = 128;
kMaxEventsPerLoop == 128

\* Bounds of the model: the number of threads that dispatch, and the length of
\* the sequences of AddService / RemoveService calls whose history is kept.
NumWorkers == 2
MaxCalls == 4

\* Threads that call ReceiveAndDispatch / EnterDispatchLoop.
Workers == 1 .. NumWorkers

\* Threads that call SetCanceled (or run the destructor, which calls it).
Controller == "c1"
Cancellers == {Controller, "c2"}

\* The services a caller may hand to AddService / RemoveService.  "A" and
\* "B" have a uds endpoint; "X" has an endpoint of another transport.
Services == {"A", "B", "X"}

\* service->endpoint()->GetIpcTag() == Endpoint::kIpcTag
HasUdsEndpoint(s) == s \in {"A", "B"}

UdsServices == {s \in Services : HasUdsEndpoint(s)}

\* event.data.ptr of the event fd: the dispatcher itself.
this == "this"

\* The timeouts a caller passes to ReceiveAndDispatch: block (-1) or poll (0).
\* A positive timeout behaves as 0 does after an arbitrary delay.
Timeouts == {-1, 0}

NoThread == "none"
NoCall == [op |-> "none"]

VARIABLES
  thread_count_,  \* int thread_count_
  canceled_,      \* bool canceled_
  services_,      \* std::list<std::shared_ptr<Service>> services_
  epoll_fd_,      \* interest list of epoll_fd_: the data.ptr of each registered fd
  event_fd_,      \* counter of event_fd_ (readable iff > 0)
  mutex_,         \* the canceller holding mutex_ across steps, or NoThread
  condition_,     \* the threads blocked in condition_.wait
  pending,        \* services whose endpoint has a message pending (fd readable)
  pc,             \* per worker: position in ReceiveAndDispatch / EnterDispatchLoop
  call,           \* per worker: the method it executes, "RAD" or "EDL"
  timeout,        \* per worker: the timeout argument
  events,         \* per worker: epoll_event events[] filled by epoll_wait (data.ptr)
  i,              \* per worker: the for loop's index (1-based)
  ret,            \* per worker: the value the call returns
  invoked,        \* per worker: callbacks invoked by the current call, per service
  entered,        \* per worker: ThreadEnter of the current call succeeded
  exits,          \* per worker: ThreadExit calls made by the current call
  atwait,         \* per worker: the identities that were ready when epoll_wait returned
  cpc,            \* per canceller: position in SetCanceled
  cancel,         \* per canceller: the argument of SetCanceled
  repeated,       \* per canceller: the call it is in is SetCanceled(true) and so
                  \* was the call it made before
  create,         \* Create(): its position, the handles that are open, and what
                  \* the system calls of the constructor returned (TRUE: success)
  reg,            \* the AddService / RemoveService call that returned in the last
                  \* step, where calls are observed: operation, argument, result
  log             \* the AddService / RemoveService calls made so far, where the
                  \* history of calls is kept

wvars == <<pc, call, timeout, events, i, ret, invoked, entered, exits, atwait>>
cvars == <<cpc, cancel, repeated>>
dvars == <<thread_count_, canceled_, services_, epoll_fd_, event_fd_, mutex_,
           condition_>>
ovars == <<reg, log>>
vars == <<dvars, pending, wvars, cvars, ovars, create>>

----------------------------------------------------------------------------
\* Helpers

RECURSIVE Perms(_)
Perms(S) ==
  IF S = {} THEN {<<>>}
  ELSE UNION {{<<x>> \o p : p \in Perms(S \ {x})} : x \in S}

Range(q) == {q[k] : k \in 1 .. Len(q)}

\* std::list::remove: erase every element equal to s.
RECURSIVE ListRemove(_, _)
ListRemove(q, s) ==
  IF q = <<>> THEN <<>>
  ELSE IF Head(q) = s THEN ListRemove(Tail(q), s)
  ELSE <<Head(q)>> \o ListRemove(Tail(q), s)

NoInvocations == [s \in UdsServices |-> 0]

\* Mutant: an identity handed to one thread is not reported again until that
\* thread is done with its batch (one-shot registration).
ReadyIdsOneShot ==
  {x \in epoll_fd_ :
     /\ IF x = this THEN event_fd_ > 0 ELSE x \in pending
     /\ \A w \in Workers : x \notin Range(events[w])}

\* The identities epoll reports as ready: registered, level-triggered EPOLLIN.
ReadyIds ==
  {x \in epoll_fd_ : IF x = this THEN event_fd_ > 0 ELSE x \in pending}

\* Mutant: epoll_wait asked for one event only.
WaitBatchesOfOne(R) == {<<x>> : x \in R}

\* The batches one epoll_wait may return for the ready identities R: all of
\* them when they fit in the events array, in the order of the ready list.
WaitBatches(R) ==
  IF Cardinality(R) <= kMaxEventsPerLoop THEN Perms(R)
  ELSE UNION {Perms(T) : T \in {U \in SUBSET R : Cardinality(U) = kMaxEventsPerLoop}}

\* The positions at which a worker is between ThreadEnter and ThreadExit.
ActivePc == {"loop", "wait", "dispatch", "callback", "exit"}

----------------------------------------------------------------------------
\* The handles of the dispatcher.
Handles == {"event_fd_", "epoll_fd_"}

\* Create() has returned a dispatcher: the three system calls succeeded.
Created == [pc |-> "returned", open |-> Handles, results |-> <<TRUE, TRUE, TRUE>>]

\* The fields of a dispatcher object before its constructor runs, and threads
\* that have called nothing.
NewObject ==
  /\ thread_count_ = 0
  /\ canceled_ = FALSE
  /\ services_ = <<>>
  /\ event_fd_ = 0
  /\ mutex_ = NoThread
  /\ condition_ = {}
  /\ pending = {}
  /\ pc = [w \in Workers |-> "idle"]
  /\ call = [w \in Workers |-> "none"]
  /\ timeout = [w \in Workers |-> -1]
  /\ events = [w \in Workers |-> <<>>]
  /\ i = [w \in Workers |-> 0]
  /\ ret = [w \in Workers |-> 0]
  /\ invoked = [w \in Workers |-> NoInvocations]
  /\ entered = [w \in Workers |-> FALSE]
  /\ exits = [w \in Workers |-> 0]
  /\ atwait = [w \in Workers |-> {}]
  /\ cpc = [c \in Cancellers |-> "idle"]
  /\ cancel = [c \in Cancellers |-> FALSE]
  /\ repeated = [c \in Cancellers |-> FALSE]
  /\ reg = NoCall
  /\ log = <<>>

\* The dispatcher Create() returned.
Init ==
  /\ NewObject
  /\ epoll_fd_ = {this}
  /\ create = Created

\* A step that is no AddService / RemoveService call.
NoRegistryCall == reg' = NoCall /\ UNCHANGED log

----------------------------------------------------------------------------
\* Thread accounting (ThreadEnter / ThreadExit)

\* Mutant: ThreadEnter without the test of canceled_.
ThreadEnterNeverRefused == FALSE

\* if (canceled_) return -EBUSY;
ThreadEnterRefused == canceled_

\* thread_count_++
ThreadEnterCount == thread_count_ + 1

\* thread_count_--
ThreadExitCount == thread_count_ - 1

\* condition_.notify_one(): wakes one of the threads blocked in condition_.wait,
\* if there is one.  The woken thread still has to reacquire mutex_.
NotifyOne ==
  IF condition_ = {}
    THEN UNCHANGED <<condition_, cpc>>
    ELSE \E c \in condition_ :
           /\ condition_' = condition_ \ {c}
           /\ cpc' = [cpc EXCEPT ![c] = "woken"]

\* The first statements of ReceiveAndDispatch(timeout) and EnterDispatchLoop():
\*   int ret = ThreadEnter(); if (ret < 0) return ret;
\* ThreadEnter runs under mutex_.
ThreadEnter(w, op, t, next) ==
  /\ pc[w] = "idle"
  /\ mutex_ = NoThread
  /\ call' = [call EXCEPT ![w] = op]
  /\ timeout' = [timeout EXCEPT ![w] = t]
  /\ IF ThreadEnterRefused
       THEN /\ ret' = [ret EXCEPT ![w] = -EBUSY]
            /\ pc' = [pc EXCEPT ![w] = "done"]
            /\ UNCHANGED <<thread_count_, entered>>
       ELSE /\ thread_count_' = ThreadEnterCount
            /\ entered' = [entered EXCEPT ![w] = TRUE]
            /\ pc' = [pc EXCEPT ![w] = next]
            /\ UNCHANGED ret
  /\ NoRegistryCall
  /\ UNCHANGED create
  /\ UNCHANGED <<canceled_, services_, epoll_fd_, event_fd_, mutex_, condition_,
                 pending, events, i, invoked, exits, atwait, cvars>>

\* ThreadExit(); return ret;   ThreadExit runs under mutex_.  The locals of the
\* call end with it; what the caller sees is ret.
ThreadExit(w) ==
  /\ pc[w] = "exit"
  /\ mutex_ = NoThread
  /\ thread_count_' = ThreadExitCount
  /\ NotifyOne
  /\ exits' = [exits EXCEPT ![w] = @ + 1]
  /\ pc' = [pc EXCEPT ![w] = "done"]
  /\ events' = [events EXCEPT ![w] = <<>>]
  /\ i' = [i EXCEPT ![w] = 0]
  /\ invoked' = [invoked EXCEPT ![w] = NoInvocations]
  /\ atwait' = [atwait EXCEPT ![w] = {}]
  /\ NoRegistryCall
  /\ UNCHANGED create
  /\ UNCHANGED <<canceled_, services_, epoll_fd_, event_fd_, mutex_, pending,
                 call, timeout, ret, entered, cancel, repeated>>

----------------------------------------------------------------------------
\* ReceiveAndDispatch(int timeout) and EnterDispatchLoop()

ReceiveAndDispatch(w, t) == ThreadEnter(w, "RAD", t, "wait")

EnterDispatchLoop(w) == ThreadEnter(w, "EDL", -1, "loop")

\* while (!IsCanceled()): canceled_ is read without mutex_.
IsCanceled == canceled_

\* The value EnterDispatchLoop returns when the loop condition ends the loop:
\*   ThreadExit(); return 0;
LoopExitStatus == 0

LoopCheck(w) ==
  /\ pc[w] = "loop"
  /\ IF IsCanceled
       THEN /\ pc' = [pc EXCEPT ![w] = "exit"]
            /\ ret' = [ret EXCEPT ![w] = LoopExitStatus]
       ELSE /\ pc' = [pc EXCEPT ![w] = "wait"]
            /\ UNCHANGED ret
  /\ NoRegistryCall
  /\ UNCHANGED create
  /\ UNCHANGED <<dvars, pending, call, timeout, events, i, invoked, entered,
                 exits, atwait, cvars>>

\* epoll_wait returns count > 0: the ready identities, in events[0..count-1].
WaitEvents(w) ==
  /\ pc[w] = "wait"
  /\ ReadyIds # {}
  /\ \E b \in WaitBatches(ReadyIds) : events' = [events EXCEPT ![w] = b]
  /\ atwait' = [atwait EXCEPT ![w] = ReadyIds]
  /\ i' = [i EXCEPT ![w] = 1]
  /\ pc' = [pc EXCEPT ![w] = "dispatch"]
  /\ NoRegistryCall
  /\ UNCHANGED create
  /\ UNCHANGED <<dvars, pending, call, timeout, ret, invoked, entered, exits,
                 cvars>>

\* Mutant: the timeout path returns without ThreadExit().
WaitTimeoutLeaks(w) ==
  /\ pc[w] = "wait"
  /\ call[w] = "RAD"
  /\ timeout[w] >= 0
  /\ ReadyIds = {}
  /\ ret' = [ret EXCEPT ![w] = -ETIMEDOUT]
  /\ pc' = [pc EXCEPT ![w] = "done"]
  /\ NoRegistryCall
  /\ UNCHANGED create
  /\ UNCHANGED <<dvars, pending, call, timeout, events, i, invoked, entered,
                 exits, atwait, cvars>>

\* epoll_wait returns 0: the timeout expired with nothing ready.  Only
\* ReceiveAndDispatch passes a timeout other than -1.
\*   if (count <= 0) { ThreadExit(); return count < 0 ? -errno : -ETIMEDOUT; }
WaitTimeout(w) ==
  /\ pc[w] = "wait"
  /\ call[w] = "RAD"
  /\ timeout[w] >= 0
  /\ ReadyIds = {}
  /\ ret' = [ret EXCEPT ![w] = -ETIMEDOUT]
  /\ pc' = [pc EXCEPT ![w] = "exit"]
  /\ NoRegistryCall
  /\ UNCHANGED create
  /\ UNCHANGED <<dvars, pending, call, timeout, events, i, invoked, entered,
                 exits, atwait, cvars>>

\* The errors epoll_wait can fail with: EINTR when a signal interrupts the
\* sleep (so nothing was ready and the call does sleep), or an error of the
\* descriptor, reported before anything is waited for.
WaitErrnos(w) ==
  {EBADF} \cup (IF ReadyIds = {} /\ timeout[w] # 0 THEN {EINTR} ELSE {})

\* Mutant: EINTR is treated as every other error of the wait.
LoopRetriesNothing(e) == FALSE

\* EnterDispatchLoop: if (count < 0 && errno != EINTR) { ThreadExit(); return -errno; }
\* With EINTR, count = -1: the for loop does not run and the while loop goes on.
LoopRetries(e) == e = EINTR

\* epoll_wait returns -1 with errno e.  In EnterDispatchLoop with EINTR the
\* for loop is evaluated with count = -1 and no event.
WaitError(w, e) ==
  /\ pc[w] = "wait"
  /\ e \in WaitErrnos(w)
  /\ IF call[w] = "EDL" /\ LoopRetries(e)
       THEN /\ pc' = [pc EXCEPT ![w] = "dispatch"]
            /\ i' = [i EXCEPT ![w] = 1]
            /\ UNCHANGED ret
       ELSE /\ ret' = [ret EXCEPT ![w] = -e]
            /\ pc' = [pc EXCEPT ![w] = "exit"]
            /\ UNCHANGED i
  /\ NoRegistryCall
  /\ UNCHANGED create
  /\ UNCHANGED <<dvars, pending, call, timeout, events, invoked, entered,
                 exits, atwait, cvars>>

\* events[i].data.ptr == this
IsControlEvent(x) == x = this

\* i < count, the condition of the for loop (i is 1-based here)
InBatch(w) == i[w] <= Len(events[w])

\* Mutant: the control event is skipped and the for loop goes on.
OnControlEventContinue(w) ==
  /\ i' = [i EXCEPT ![w] = @ + 1]
  /\ UNCHANGED <<pc, ret, events, invoked, atwait>>

\* if (events[i].data.ptr == this) { ThreadExit(); return -EBUSY; }
OnControlEvent(w) ==
  /\ ret' = [ret EXCEPT ![w] = -EBUSY]
  /\ pc' = [pc EXCEPT ![w] = "exit"]
  /\ UNCHANGED <<events, i, invoked, atwait>>

\* for (int i = 0; i < count; i++) { ... }: one evaluation of the loop head
\* and, inside the loop, of the test of events[i].
ForLoop(w) ==
  /\ pc[w] = "dispatch"
  /\ IF ~InBatch(w)
       THEN IF call[w] = "RAD"
              THEN \* ThreadExit(); return 0;
                   /\ ret' = [ret EXCEPT ![w] = 0]
                   /\ pc' = [pc EXCEPT ![w] = "exit"]
                   /\ UNCHANGED <<events, i, invoked, atwait>>
              ELSE \* the next iteration of the while loop starts afresh
                   /\ pc' = [pc EXCEPT ![w] = "loop"]
                   /\ events' = [events EXCEPT ![w] = <<>>]
                   /\ i' = [i EXCEPT ![w] = 0]
                   /\ invoked' = [invoked EXCEPT ![w] = NoInvocations]
                   /\ atwait' = [atwait EXCEPT ![w] = {}]
                   /\ UNCHANGED ret
       ELSE IF IsControlEvent(events[w][i[w]])
              THEN OnControlEvent(w)
              ELSE \* service->ReceiveAndDispatch() is entered
                   /\ invoked' = [invoked EXCEPT ![w][events[w][i[w]]] = @ + 1]
                   /\ pc' = [pc EXCEPT ![w] = "callback"]
                   /\ UNCHANGED <<events, i, ret, atwait>>
  /\ NoRegistryCall
  /\ UNCHANGED create
  /\ UNCHANGED <<dvars, pending, call, timeout, entered, exits, cvars>>

\* The statuses a service callback may return (the dispatcher ignores them).
CallbackStatuses == {0, -EINVAL}

\* i++ after the body of the for loop
NextIndex(k) == k + 1

\* service->ReceiveAndDispatch() returns st.  A callback that succeeds has
\* received a message; its endpoint stays readable when more are queued.
CallbackReturn(w, st, more) ==
  /\ pc[w] = "callback"
  /\ st \in CallbackStatuses
  /\ pending' = IF st = 0 /\ ~more THEN pending \ {events[w][i[w]]} ELSE pending
  /\ i' = [i EXCEPT ![w] = NextIndex(@)]
  /\ pc' = [pc EXCEPT ![w] = "dispatch"]
  /\ NoRegistryCall
  /\ UNCHANGED create
  /\ UNCHANGED <<dvars, call, timeout, events, ret, invoked, entered, exits,
                 atwait, cvars>>

\* The call has returned ret[w] to its caller; the thread is free to call again.
Return(w) ==
  /\ pc[w] = "done"
  /\ pc' = [pc EXCEPT ![w] = "idle"]
  /\ call' = [call EXCEPT ![w] = "none"]
  /\ timeout' = [timeout EXCEPT ![w] = -1]
  /\ events' = [events EXCEPT ![w] = <<>>]
  /\ i' = [i EXCEPT ![w] = 0]
  /\ ret' = [ret EXCEPT ![w] = 0]
  /\ invoked' = [invoked EXCEPT ![w] = NoInvocations]
  /\ entered' = [entered EXCEPT ![w] = FALSE]
  /\ exits' = [exits EXCEPT ![w] = 0]
  /\ atwait' = [atwait EXCEPT ![w] = {}]
  /\ NoRegistryCall
  /\ UNCHANGED create
  /\ UNCHANGED <<dvars, pending, cvars>>

----------------------------------------------------------------------------
\* SetCanceled(bool cancel)

\* Mutant: SetCanceled(true) signals and waits whatever thread_count_ is.
MustWaitWhenCanceling(b) == b

\* Mutant: the test looks at thread_count_ only, not at the new flag.
MustWaitIfThreads(b) == thread_count_ > 0

\* if (canceled_ && thread_count_ > 0), evaluated after canceled_ = cancel
MustWaitForThreads(b) == b /\ thread_count_ > 0

\* Mutant: the wait ends while one thread is still counted.
WaitPredicateOffByOne == ~(canceled_ /\ thread_count_ > 1)

\* The predicate of condition_.wait: !(canceled_ && thread_count_ > 0)
WaitPredicate == ~(canceled_ /\ thread_count_ > 0)

\* std::unique_lock lock(mutex_); canceled_ = cancel; and the test that follows.
SetCanceled(c, b) ==
  /\ cpc[c] = "idle"
  /\ mutex_ = NoThread
  /\ canceled_' = b
  /\ cancel' = [cancel EXCEPT ![c] = b]
  /\ repeated' = [repeated EXCEPT ![c] = cancel[c] /\ b]
  /\ IF MustWaitForThreads(b)
       THEN /\ mutex_' = c
            /\ cpc' = [cpc EXCEPT ![c] = "signal"]
       ELSE /\ cpc' = [cpc EXCEPT ![c] = "done"]
            /\ UNCHANGED mutex_
  /\ NoRegistryCall
  /\ UNCHANGED create
  /\ UNCHANGED <<thread_count_, services_, epoll_fd_, event_fd_, condition_,
                 pending, wvars>>

\* eventfd_write(event_fd_.Get(), 1)
EventFdWrite == event_fd_ + 1

\* Mutant: the event fd is not read after the wait.
EventFdStaysSignaled == event_fd_

\* eventfd_read(event_fd_.Get(), &value): resets the counter (EAGAIN at 0).
EventFdRead == 0

\* eventfd_write(...); condition_.wait(lock, pred): the predicate is false
\* (nothing changed since the test under the mutex), so the thread releases
\* mutex_ and blocks.
SignalAndWait(c) ==
  /\ cpc[c] = "signal"
  /\ mutex_ = c
  /\ event_fd_' = EventFdWrite
  /\ mutex_' = NoThread
  /\ condition_' = condition_ \cup {c}
  /\ cpc' = [cpc EXCEPT ![c] = "blocked"]
  /\ NoRegistryCall
  /\ UNCHANGED create
  /\ UNCHANGED <<thread_count_, canceled_, services_, epoll_fd_, pending, wvars,
                 cancel, repeated>>

\* A condition variable may wake a waiter that nobody notified.
SpuriousWakeup(c) ==
  /\ cpc[c] = "blocked"
  /\ c \in condition_
  /\ condition_' = condition_ \ {c}
  /\ cpc' = [cpc EXCEPT ![c] = "woken"]
  /\ NoRegistryCall
  /\ UNCHANGED create
  /\ UNCHANGED <<thread_count_, canceled_, services_, epoll_fd_, event_fd_,
                 mutex_, pending, wvars, cancel, repeated>>

\* The woken thread reacquires mutex_ and evaluates the predicate: it blocks
\* again, or leaves the wait, reads the event fd and returns (lock released).
Wakeup(c) ==
  /\ cpc[c] = "woken"
  /\ mutex_ = NoThread
  /\ IF WaitPredicate
       THEN /\ event_fd_' = EventFdRead
            /\ cpc' = [cpc EXCEPT ![c] = "done"]
            /\ UNCHANGED condition_
       ELSE /\ condition_' = condition_ \cup {c}
            /\ cpc' = [cpc EXCEPT ![c] = "blocked"]
            /\ UNCHANGED event_fd_
  /\ NoRegistryCall
  /\ UNCHANGED create
  /\ UNCHANGED <<thread_count_, canceled_, services_, epoll_fd_, mutex_, pending,
                 wvars, cancel, repeated>>

\* SetCanceled has returned to its caller.
SetCanceledReturn(c) ==
  /\ cpc[c] = "done"
  /\ cpc' = [cpc EXCEPT ![c] = "idle"]
  /\ NoRegistryCall
  /\ UNCHANGED create
  /\ repeated' = [repeated EXCEPT ![c] = FALSE]
  /\ UNCHANGED <<dvars, pending, wvars, cancel>>

----------------------------------------------------------------------------
\* AddService / RemoveService.  The value the call returns is the parameter r.

\* epoll_ctl(epoll_fd_, EPOLL_CTL_ADD, fd, &event): 0, or -errno.
EpollCtlAdd(s) == IF s \in epoll_fd_ THEN {-EEXIST} ELSE {0, -ENOMEM}

\* epoll_ctl(epoll_fd_, EPOLL_CTL_DEL, fd, &dummy): 0, or -errno.
EpollCtlDel(s) == IF s \in epoll_fd_ THEN {0} ELSE {-ENOENT}

\* Mutant: RemoveService without the test of thread_count_.
RemoveNeverRefused == FALSE

\* Mutant: RemoveService tolerates one dispatching thread.
RemoveRefusedIfSeveral == thread_count_ > 1

\* if (thread_count_ > 0) return -EBUSY;
RemoveRefused == thread_count_ > 0

\* services_.push_back(service)
PushBack(s) == Append(services_, s)

\* Mutant: push_back before the result of epoll_ctl is looked at.
AddRegistersAlways(r) == TRUE

\* Mutant: an endpoint that is registered already counts as added.
AddRegistersOnExisting(r) == r >= 0 \/ r = -EEXIST

\* Whether AddService appends to services_ when epoll_ctl returned r:
\*   if (epoll_ctl(...) < 0) { ...; return -errno; }  services_.push_back(service);
AddRegisters(r) == r >= 0

\* Mutant: the entry stays in services_ after a successful EPOLL_CTL_DEL.
RemoveErasesNever(r) == FALSE

\* Whether RemoveService erases from services_ when epoll_ctl returned r.
RemoveErases(r) == r >= 0

\* The values AddService(s) can return in the current state.
AddResults(s) == IF ~HasUdsEndpoint(s) THEN {-EINVAL} ELSE EpollCtlAdd(s)

\* The values RemoveService(s) can return in the current state.
RemoveResults(s) ==
  IF ~HasUdsEndpoint(s) THEN {-EINVAL}
  ELSE IF RemoveRefused THEN {-EBUSY}
  ELSE EpollCtlDel(s)

AddService(s, r) ==
  /\ r \in AddResults(s)
  /\ IF ~HasUdsEndpoint(s)
       THEN UNCHANGED <<epoll_fd_, services_>>
       ELSE /\ mutex_ = NoThread
            /\ epoll_fd_' = IF r < 0 THEN epoll_fd_ ELSE epoll_fd_ \cup {s}
            /\ services_' = IF AddRegisters(r) THEN PushBack(s) ELSE services_
  /\ UNCHANGED <<thread_count_, canceled_, event_fd_, mutex_, condition_,
                 pending, wvars, cvars, create>>

RemoveService(s, r) ==
  /\ r \in RemoveResults(s)
  /\ IF ~HasUdsEndpoint(s)
       THEN UNCHANGED <<epoll_fd_, services_>>
       ELSE /\ mutex_ = NoThread
            /\ IF RemoveRefused
                 THEN UNCHANGED <<epoll_fd_, services_>>
                 ELSE /\ epoll_fd_' = IF r < 0 THEN epoll_fd_ ELSE epoll_fd_ \ {s}
                      /\ services_' = IF RemoveErases(r)
                                        THEN ListRemove(services_, s)
                                        ELSE services_
  /\ UNCHANGED <<thread_count_, canceled_, event_fd_, mutex_, condition_,
                 pending, wvars, cvars, create>>

\* The record of a call of op on service s that returned r.
Returned(op, s, r) == [op |-> op, svc |-> s, ret |-> r]

\* The possible return values of the two methods.
RegistryResults == {0, -EINVAL, -EBUSY, -EEXIST, -ENOMEM, -ENOENT}

\* A registry call whose result nobody looks at.
RegistryCall ==
  /\ \E s \in Services, r \in RegistryResults :
       AddService(s, r) \/ RemoveService(s, r)
  /\ NoRegistryCall
  /\ UNCHANGED create

\* A registry call whose result is observed in reg.
ObservedRegistryCall ==
  /\ \E s \in Services, r \in RegistryResults :
       \/ AddService(s, r) /\ reg' = Returned("add", s, r)
       \/ RemoveService(s, r) /\ reg' = Returned("remove", s, r)
  /\ UNCHANGED log

\* A registry call that is observed and appended to the history of calls.
LoggedAddService(s, r) ==
  /\ Len(log) < MaxCalls
  /\ AddService(s, r)
  /\ reg' = Returned("add", s, r)
  /\ log' = Append(log, Returned("add", s, r))

LoggedRemoveService(s, r) ==
  /\ Len(log) < MaxCalls
  /\ RemoveService(s, r)
  /\ reg' = Returned("remove", s, r)
  /\ log' = Append(log, Returned("remove", s, r))

----------------------------------------------------------------------------
\* The environment: a client sends a message to service s.
MessageArrives(s) ==
  /\ s \in UdsServices
  /\ s \notin pending
  /\ pending' = pending \cup {s}
  /\ NoRegistryCall
  /\ UNCHANGED create
  /\ UNCHANGED <<dvars, wvars, cvars>>

----------------------------------------------------------------------------
\* Create() and the constructor.  ok is the outcome of the system call.

\* The fields the constructor and Create() leave alone.
CreateFrame ==
  /\ NoRegistryCall
  /\ UNCHANGED <<thread_count_, services_, event_fd_, mutex_, condition_,
                 pending, wvars, cvars>>

\* event_fd_.Reset(eventfd(0, EFD_CLOEXEC | EFD_NONBLOCK));
\* if (!event_fd_) { ...; return; }
CtorEventFd(ok) ==
  /\ create.pc = "eventfd"
  /\ create' = [pc |-> IF ok THEN "epoll_create" ELSE "constructed",
                open |-> IF ok THEN create.open \cup {"event_fd_"}
                               ELSE create.open,
                results |-> Append(create.results, ok)]
  /\ UNCHANGED <<canceled_, epoll_fd_>>
  /\ CreateFrame

\* epoll_fd_.Reset(epoll_create(1)); if (!epoll_fd_) { ...; return; }
CtorEpollCreate(ok) ==
  /\ create.pc = "epoll_create"
  /\ create' = [pc |-> IF ok THEN "epoll_ctl" ELSE "constructed",
                open |-> IF ok THEN create.open \cup {"epoll_fd_"}
                               ELSE create.open,
                results |-> Append(create.results, ok)]
  /\ UNCHANGED <<canceled_, epoll_fd_>>
  /\ CreateFrame

\* if (epoll_ctl(epoll_fd_.Get(), EPOLL_CTL_ADD, event_fd_.Get(), &event) < 0)
\*   { ...; event_fd_.Close(); epoll_fd_.Close(); }
CtorEpollCtl(ok) ==
  /\ create.pc = "epoll_ctl"
  /\ create' = [pc |-> "constructed",
                open |-> IF ok THEN create.open ELSE {},
                results |-> Append(create.results, ok)]
  /\ epoll_fd_' = IF ok THEN {this} ELSE epoll_fd_
  /\ UNCHANGED canceled_
  /\ CreateFrame

\* Mutant: Create() tests the event fd only.
CreateFailedLooksAtEventFd == "event_fd_" \notin create.open

\* if (!dispatcher->epoll_fd_ || !dispatcher->event_fd_)
CreateFailed == "epoll_fd_" \notin create.open \/ "event_fd_" \notin create.open

\* Create() after the constructor: dispatcher.reset() destroys the object when
\* a handle is missing (the destructor calls SetCanceled(true), which has no
\* thread to wait for, and the handles close with the object); then Create()
\* returns the pointer.
CreateReturn ==
  /\ create.pc = "constructed"
  /\ IF CreateFailed
       THEN /\ create' = [create EXCEPT !.pc = "null", !.open = {}]
            /\ canceled_' = TRUE
            /\ epoll_fd_' = {}
       ELSE /\ create' = [create EXCEPT !.pc = "returned"]
            /\ UNCHANGED <<canceled_, epoll_fd_>>
  /\ CreateFrame

----------------------------------------------------------------------------
\* Steps of a thread that calls ReceiveAndDispatch / EnterDispatchLoop.
WorkerStep(w) ==
  \/ \E t \in Timeouts : ReceiveAndDispatch(w, t)
  \/ EnterDispatchLoop(w)
  \/ LoopCheck(w)
  \/ WaitEvents(w)
  \/ WaitTimeout(w)
  \/ \E e \in {EINTR, EBADF} : WaitError(w, e)
  \/ ForLoop(w)
  \/ \E st \in CallbackStatuses, more \in BOOLEAN : CallbackReturn(w, st, more)
  \/ ThreadExit(w)
  \/ Return(w)

\* Steps of a thread that calls SetCanceled.
CancellerStep(c) ==
  \/ \E b \in BOOLEAN : SetCanceled(c, b)
  \/ SignalAndWait(c)
  \/ SpuriousWakeup(c)
  \/ Wakeup(c)
  \/ SetCanceledReturn(c)

\* The dispatcher with its worker threads, one thread that cancels and
\* un-cancels it, and services that come and go.
Next ==
  \/ \E w \in Workers : WorkerStep(w)
  \/ CancellerStep(Controller)
  \/ RegistryCall
  \/ \E s \in UdsServices : MessageArrives(s)

Spec == Init /\ [][Next]_vars

\* A caller that adds and removes services while no thread dispatches.
NextRegistry ==
  \/ \E s \in Services, r \in RegistryResults : LoggedAddService(s, r)
  \/ \E s \in Services, r \in RegistryResults : LoggedRemoveService(s, r)

SpecRegistry == Init /\ [][NextRegistry]_vars

\* A caller that creates a dispatcher and, when it got one, adds and removes
\* services.
InitCreate ==
  /\ NewObject
  /\ epoll_fd_ = {}
  /\ create = [pc |-> "eventfd", open |-> {}, results |-> <<>>]

NextCreate ==
  \/ \E ok \in BOOLEAN : CtorEventFd(ok)
  \/ \E ok \in BOOLEAN : CtorEpollCreate(ok)
  \/ \E ok \in BOOLEAN : CtorEpollCtl(ok)
  \/ CreateReturn
  \/ create.pc = "returned" /\ NextRegistry

SpecCreate == InitCreate /\ [][NextCreate]_vars

\* Worker threads, and a caller that adds and removes services and looks at
\* what the calls return.
NextObserved ==
  \/ \E w \in Workers : WorkerStep(w)
  \/ ObservedRegistryCall
  \/ \E s \in UdsServices : MessageArrives(s)

SpecObserved == Init /\ [][NextObserved]_vars

\* The service that is registered and receives messages while the dispatcher
\* is shut down.
Served == "A"

\* AddService(Served), whatever it returns.
AddServed ==
  /\ \E r \in RegistryResults : AddService(Served, r)
  /\ NoRegistryCall
  /\ UNCHANGED create

\* The dispatcher with its worker threads and two threads that cancel and
\* un-cancel it in any order, serving one service.
NextCancellers ==
  \/ \E w \in Workers : WorkerStep(w)
  \/ \E c \in Cancellers : CancellerStep(c)
  \/ AddServed
  \/ MessageArrives(Served)

SpecCancellers == Init /\ [][NextCancellers]_vars

\* Steps of a thread that shuts the dispatcher down: SetCanceled(true), called
\* directly or by the destructor.
ShutdownStep(c) ==
  \/ SetCanceled(c, TRUE)
  \/ SignalAndWait(c)
  \/ SpuriousWakeup(c)
  \/ Wakeup(c)
  \/ SetCanceledReturn(c)

\* What a thread does without waiting for anything but the scheduler, the
\* mutex or the return of a callback.  A thread that is runnable runs; a
\* thread that keeps asking for mutex_ gets it; a callback returns.
WorkerFairness(w) ==
  /\ WF_vars(LoopCheck(w))
  /\ WF_vars(WaitEvents(w))
  /\ WF_vars(WaitTimeout(w))
  /\ WF_vars(ForLoop(w))
  /\ WF_vars(\E st \in CallbackStatuses, more \in BOOLEAN :
               CallbackReturn(w, st, more))
  /\ SF_vars(ThreadExit(w))

CancellerFairness(c) ==
  /\ WF_vars(SignalAndWait(c))
  /\ SF_vars(Wakeup(c))
  /\ WF_vars(SetCanceledReturn(c))

\* The dispatcher is shut down by two threads (say, one that calls
\* SetCanceled(true) and one that destroys the dispatcher), under fair
\* scheduling.
NextShutdown ==
  \/ \E w \in Workers : WorkerStep(w)
  \/ \E c \in Cancellers : ShutdownStep(c)
  \/ AddServed
  \/ MessageArrives(Served)

FairShutdown ==
  /\ Init
  /\ [][NextShutdown]_vars
  /\ \A w \in Workers : WorkerFairness(w)
  /\ \A c \in Cancellers : CancellerFairness(c)

\* The same with one thread that shuts the dispatcher down.
NextShutdownByOne ==
  \/ \E w \in Workers : WorkerStep(w)
  \/ ShutdownStep(Controller)
  \/ AddServed
  \/ MessageArrives(Served)

FairShutdownByOne ==
  /\ Init
  /\ [][NextShutdownByOne]_vars
  /\ \A w \in Workers : WorkerFairness(w)
  /\ CancellerFairness(Controller)

\* The thread whose service callbacks do not return, and the other worker.
Stuck == 1
Free == 2

\* Steps of the thread whose callbacks do not return.
StuckStep(w) ==
  \/ \E t \in Timeouts : ReceiveAndDispatch(w, t)
  \/ EnterDispatchLoop(w)
  \/ LoopCheck(w)
  \/ WaitEvents(w)
  \/ WaitTimeout(w)
  \/ \E e \in {EINTR, EBADF} : WaitError(w, e)
  \/ ForLoop(w)
  \/ ThreadExit(w)
  \/ Return(w)

\* A dispatcher that is not canceled, with one thread whose callbacks do not
\* return and one whose callbacks do, under fair scheduling of the latter.
NextStuck ==
  \/ StuckStep(Stuck)
  \/ WorkerStep(Free)
  \/ RegistryCall
  \/ \E s \in UdsServices : MessageArrives(s)

FairStuck ==
  /\ Init
  /\ [][NextStuck]_vars
  /\ WorkerFairness(Free)

----------------------------------------------------------------------------
\* Properties of the dispatcher

\* C2: when SetCanceled(true) has returned to the one thread that calls
\* SetCanceled, thread_count_ is 0 and no worker is left between ThreadEnter
\* and ThreadExit.
CancelReturnsQuiescent ==
  (cpc[Controller] = "done" /\ cancel[Controller]) =>
    /\ thread_count_ = 0
    /\ \A w \in Workers : pc[w] \notin ActivePc

\* SetCanceled(true) has returned after every worker, each of which was inside
\* EnterDispatchLoop, left the loop because of the cancellation.
CancelReturnsQuiescentWitness ==
  /\ cpc[Controller] = "done"
  /\ cancel[Controller]
  /\ event_fd_ = 0
  /\ \A w \in Workers :
       pc[w] = "done" /\ call[w] = "EDL" /\ entered[w] /\ ret[w] # -EBADF

\* C4: thread_count_ is never negative and counts the calls that passed
\* ThreadEnter and have not run ThreadExit; a call that entered runs ThreadExit
\* exactly once before it returns, a call that was refused never does.
ThreadAccounting ==
  /\ thread_count_ >= 0
  /\ thread_count_ = Cardinality({w \in Workers : entered[w] /\ exits[w] = 0})
  /\ \A w \in Workers :
       /\ (entered[w] /\ exits[w] = 0) <=> pc[w] \in ActivePc
       /\ pc[w] = "done" => exits[w] = (IF entered[w] THEN 1 ELSE 0)

\* One call timed out and has run its ThreadExit while another thread is
\* still inside a callback.
ThreadAccountingWitness ==
  \E w, v \in Workers :
    /\ pc[w] = "done" /\ entered[w] /\ exits[w] = 1 /\ ret[w] = -ETIMEDOUT
    /\ pc[v] = "callback"
    /\ thread_count_ = 1

\* C5: a dispatch call that starts while canceled_ is set returns -EBUSY at
\* once: thread_count_ is not incremented, nothing is waited for and no
\* callback runs; no step increases thread_count_ while canceled_ is set.
CancellationGate ==
  [][/\ canceled_ => thread_count_' <= thread_count_
     /\ \A w \in Workers :
          (canceled_ /\ pc[w] = "idle" /\ pc'[w] # "idle") =>
            /\ pc'[w] = "done"
            /\ ret'[w] = -EBUSY
            /\ ~entered'[w]
            /\ thread_count_' = thread_count_
            /\ events'[w] = <<>>
            /\ invoked'[w] = NoInvocations]_vars

\* EnterDispatchLoop was refused on a canceled dispatcher.
CancellationGateWitness ==
  \E w \in Workers :
    /\ canceled_
    /\ pc[w] = "done" /\ call[w] = "EDL"
    /\ ~entered[w] /\ ret[w] = -EBUSY /\ exits[w] = 0

\* C6: an EnterDispatchLoop call that entered and ended for another reason
\* than an error of the wait, that is, because of a cancellation, returns
\* -EBUSY (never 0).
LoopEndsBusy ==
  \A w \in Workers :
    (pc[w] = "done" /\ call[w] = "EDL" /\ entered[w] /\ ret[w] # -EBADF) =>
      ret[w] = -EBUSY

\* The position of the control event in the batch q.
ControlPosition(q) == CHOOSE k \in 1 .. Len(q) : q[k] = this

\* C7: in a ReceiveAndDispatch cycle whose batch holds the control event at
\* position k, the loop never goes past k, the call ends with -EBUSY, the
\* services before k have been called back once each, the others not at all,
\* and ThreadExit has run once when the call returns.
ControlEventEndsCycle ==
  \A w \in Workers :
    /\ (call[w] = "RAD" /\ this \in Range(events[w])) =>
         LET k == ControlPosition(events[w])
             before == {events[w][j] : j \in 1 .. k - 1}
         IN /\ i[w] <= k
            /\ \A s \in UdsServices :
                 invoked[w][s] <= (IF s \in before THEN 1 ELSE 0)
            /\ pc[w] = "exit" =>
                 /\ ret[w] = -EBUSY
                 /\ i[w] = k
                 /\ \A s \in UdsServices :
                      invoked[w][s] = (IF s \in before THEN 1 ELSE 0)
    /\ (pc[w] = "done" /\ call[w] = "RAD" /\ entered[w]) => exits[w] = 1

\* A cycle ends at a control event that had one service before it and one
\* after it in the batch.
ControlEventEndsCycleWitness ==
  \E w \in Workers :
    /\ call[w] = "RAD" /\ pc[w] = "exit" /\ ret[w] = -EBUSY
    /\ Len(events[w]) = 3 /\ events[w][2] = this
    /\ invoked[w][events[w][1]] = 1 /\ invoked[w][events[w][3]] = 0

\* C8: a ReceiveAndDispatch cycle whose wait returned ready services and no
\* control event calls back every service that was ready exactly once and no
\* other service, whatever the callbacks return, and ends with 0.
CycleDispatchesReadyOnce ==
  \A w \in Workers :
    (call[w] = "RAD" /\ atwait[w] # {} /\ this \notin atwait[w]) =>
      /\ \A s \in UdsServices :
           invoked[w][s] <= (IF s \in atwait[w] THEN 1 ELSE 0)
      /\ pc[w] = "exit" =>
           /\ ret[w] = 0
           /\ \A s \in UdsServices :
                invoked[w][s] = (IF s \in atwait[w] THEN 1 ELSE 0)

\* The only dispatch thread has completed a cycle in which A was ready and B,
\* registered as well, was not; A's callback failed (its message is still
\* pending).
CycleDispatchesReadyOnceWitness ==
  \E w \in Workers :
    /\ call[w] = "RAD" /\ pc[w] = "exit" /\ ret[w] = 0
    /\ atwait[w] = {"A"} /\ "B" \in epoll_fd_
    /\ invoked[w]["A"] = 1 /\ invoked[w]["B"] = 0
    /\ "A" \in pending
    /\ thread_count_ = 1 /\ ~canceled_ /\ event_fd_ = 0

\* C10: the services in services_ are the services registered in the epoll
\* set, none is listed twice, the event fd is registered, and its identity is
\* the identity of no registered service.
RegistryLockstep ==
  /\ Range(services_) = epoll_fd_ \ {this}
  /\ Len(services_) = Cardinality(Range(services_))
  /\ this \in epoll_fd_
  /\ \A k \in 1 .. Len(services_) : services_[k] # this

\* Two services are registered while both workers dispatch and the
\* controller waits for them in SetCanceled(true).
RegistryLockstepWitness ==
  /\ Len(services_) = 2
  /\ thread_count_ = NumWorkers
  /\ cpc[Controller] = "blocked"

\* The number of calls of op on service s in the history, and the number of
\* those that returned 0.
Calls(op, s) ==
  Cardinality({k \in 1 .. Len(log) : log[k].op = op /\ log[k].svc = s})

Successes(op, s) ==
  Cardinality({k \in 1 .. Len(log) :
                 log[k].op = op /\ log[k].svc = s /\ log[k].ret = 0})

\* C9 as stated: after a sequence of AddService / RemoveService calls made
\* while no thread dispatches (none of which failed for lack of memory), the
\* registry holds exactly the services with more AddService calls than
\* RemoveService calls, each once.
NetCallsMembership ==
  (\A k \in 1 .. Len(log) : log[k].ret # -ENOMEM) =>
    /\ \A s \in UdsServices :
         s \in Range(services_) <=> Calls("add", s) > Calls("remove", s)
    /\ Len(services_) = Cardinality(Range(services_))

\* C9, amended: after a sequence of AddService / RemoveService calls made
\* while no thread dispatches, the registry holds exactly the services with
\* more successful AddService calls than successful RemoveService calls
\* (then exactly one more), each once.
NetSuccessMembership ==
  /\ thread_count_ = 0
  /\ \A s \in UdsServices :
       /\ s \in Range(services_) <=>
            Successes("add", s) > Successes("remove", s)
       /\ Successes("add", s) - Successes("remove", s) \in {0, 1}
  /\ Len(services_) = Cardinality(Range(services_))

\* A was added, added again (refused), removed and added again: it is
\* registered once.
NetSuccessMembershipWitness ==
  /\ Calls("add", "A") = 3 /\ Successes("add", "A") = 2
  /\ Successes("remove", "A") = 1
  /\ services_ = <<"A">>

\* C1: a RemoveService call on a service with a uds endpoint, made while
\* thread_count_ > 0, returns -EBUSY.  (reg is the call of the last step, which
\* left thread_count_ as it was.)
RemoveBusyWhileActive ==
  (reg.op = "remove" /\ HasUdsEndpoint(reg.svc) /\ thread_count_ > 0) =>
    reg.ret = -EBUSY

\* RemoveService of a registered service returned -EBUSY while one thread
\* executes the callback of that service and another is blocked in the wait.
RemoveBusyWhileActiveWitness ==
  /\ reg.op = "remove" /\ reg.ret = -EBUSY
  /\ reg.svc \in Range(services_)
  /\ \E w, v \in Workers :
       /\ pc[w] = "callback" /\ events[w][i[w]] = reg.svc
       /\ pc[v] = "wait" /\ ReadyIds = {}

\* C3: under fair scheduling, with callbacks that return, every
\* SetCanceled(true) call that waits for the worker threads returns, and every
\* worker that is between ThreadEnter and ThreadExit while a SetCanceled(true)
\* call waits runs ThreadExit.
ShutdownCompletes ==
  /\ \A c \in Cancellers : (cpc[c] = "blocked") ~> (cpc[c] = "done")
  /\ \A w \in Workers :
       (pc[w] \in ActivePc /\ \E c \in Cancellers : cpc[c] = "blocked")
         ~> (pc[w] \notin ActivePc)

\* C11: an AddService / RemoveService call that returns an error leaves
\* services_, the epoll registrations, thread_count_ and canceled_ as they
\* were, and the error is -EINVAL for an endpoint of another transport, -EBUSY
\* for a removal while threads dispatch, and otherwise the error of epoll_ctl:
\* -EEXIST for an endpoint that is registered, -ENOENT for one that is not.
RegistryFailureAtomic ==
  [][(reg'.op # "none" /\ reg'.ret < 0) =>
       /\ UNCHANGED <<services_, epoll_fd_, thread_count_, canceled_>>
       /\ IF ~HasUdsEndpoint(reg'.svc) THEN reg'.ret = -EINVAL
          ELSE IF reg'.op = "remove"
            THEN IF thread_count_ > 0 THEN reg'.ret = -EBUSY
                 ELSE reg'.svc \notin epoll_fd_ /\ reg'.ret = -ENOENT
            ELSE IF reg'.svc \in epoll_fd_ THEN reg'.ret = -EEXIST
                 ELSE reg'.ret = -ENOMEM]_vars

\* AddService of a service that is registered already returned -EEXIST while
\* a thread dispatches; both services are registered, once each.
RegistryFailureAtomicWitness ==
  /\ reg.op = "add" /\ reg.ret = -EEXIST
  /\ reg.svc \in Range(services_)
  /\ Len(services_) = 2
  /\ thread_count_ > 0

\* No SetCanceled call is in progress.
NoCancelInProgress == \A c \in Cancellers : cpc[c] \in {"idle", "done"}

\* C12: when the wait of a ReceiveAndDispatch(0) call ends, other than with an
\* error of the descriptor, on a dispatcher that is not canceled, with no
\* SetCanceled call in progress and no registered service ready, the call goes
\* to ThreadExit with -ETIMEDOUT and has invoked no callback, whatever
\* SetCanceled calls were made before; and no event is left in the event fd
\* when no SetCanceled call is in progress.
PollTimesOut ==
  [][/\ NoCancelInProgress' => event_fd_' = 0
     /\ \A w \in Workers :
          (/\ pc[w] = "wait" /\ call[w] = "RAD" /\ timeout[w] = 0
           /\ pc'[w] # "wait"
           /\ ~canceled_ /\ NoCancelInProgress
           /\ pending \cap epoll_fd_ = {}
           /\ ret'[w] # -EBADF) =>
            /\ pc'[w] = "exit"
            /\ ret'[w] = -ETIMEDOUT
            /\ invoked'[w] = NoInvocations
            /\ thread_count_' = thread_count_]_vars

\* ReceiveAndDispatch(0) timed out on a dispatcher that was canceled while
\* another thread dispatched (that thread got the control event) and was then
\* un-canceled.
PollTimesOutWitness ==
  \E w, v \in Workers :
    /\ pc[w] = "exit" /\ call[w] = "RAD" /\ timeout[w] = 0
    /\ ret[w] = -ETIMEDOUT
    /\ pc[v] = "done" /\ entered[v] /\ ret[v] = -EBUSY
    /\ ~canceled_ /\ NoCancelInProgress /\ event_fd_ = 0
    /\ thread_count_ = 1

\* C13: a SetCanceled(true) call by the thread whose previous call was
\* SetCanceled(true) returns at once: it does not write the event fd, does not
\* wait, and leaves canceled_ set, thread_count_ = 0 and the event fd
\* unsignaled, the state in which every SetCanceled(true) call returns; and
\* under fair scheduling a SetCanceled(true) call that waits for the worker
\* threads returns.
CancelTwice ==
  /\ [][(/\ cpc[Controller] = "idle" /\ cancel[Controller]
         /\ cpc'[Controller] # "idle") =>
          /\ cpc'[Controller] = "done"
          /\ UNCHANGED <<canceled_, thread_count_, event_fd_, condition_>>]_vars
  /\ [](cpc[Controller] = "done" =>
          canceled_ /\ thread_count_ = 0 /\ event_fd_ = 0)
  /\ (cpc[Controller] \in {"signal", "blocked", "woken"})
       ~> (cpc[Controller] = "done")

\* The second of two consecutive SetCanceled(true) calls has returned; the
\* first one had waited for a worker, which left at the control event.
CancelTwiceWitness ==
  /\ cpc[Controller] = "done" /\ repeated[Controller]
  /\ \E w \in Workers : pc[w] = "done" /\ entered[w] /\ ret[w] = -EBUSY
  /\ canceled_ /\ thread_count_ = 0 /\ event_fd_ = 0

\* C14: a SetCanceled(false) call clears canceled_ and returns: it does not
\* write or read the event fd, does not wait on condition_, wakes nobody, and
\* leaves thread_count_, services_, the epoll registrations and every
\* dispatching thread as they were; with canceled_ clear, a dispatch call
\* that starts passes ThreadEnter.
UncancelOnlyClearsFlag ==
  [][/\ \A c \in Cancellers :
          (cpc[c] = "idle" /\ cpc'[c] # "idle" /\ ~cancel'[c]) =>
            /\ cpc'[c] = "done"
            /\ ~canceled_'
            /\ \A d \in Cancellers \ {c} : cpc'[d] = cpc[d]
            /\ UNCHANGED <<thread_count_, services_, epoll_fd_, event_fd_,
                           mutex_, condition_, pending, wvars>>
     /\ \A w \in Workers :
          (pc[w] = "idle" /\ pc'[w] # "idle" /\ ~canceled_) =>
            /\ entered'[w]
            /\ pc'[w] \in {"wait", "loop"}
            /\ thread_count_' = thread_count_ + 1]_vars

\* SetCanceled(false) has returned after a cancellation that refused one
\* dispatch call; another call has passed ThreadEnter since and waits.
UncancelOnlyClearsFlagWitness ==
  /\ cpc["c2"] = "done" /\ ~cancel["c2"]
  /\ cpc[Controller] = "idle" /\ cancel[Controller]
  /\ ~canceled_ /\ event_fd_ = 0 /\ thread_count_ = 1
  /\ \E w, v \in Workers :
       /\ pc[v] = "done" /\ ~entered[v] /\ ret[v] = -EBUSY
       /\ pc[w] = "wait" /\ entered[w]

\* C15: Create() returns a dispatcher exactly when eventfd, epoll_create and
\* epoll_ctl all succeeded; the dispatcher it returns has the event fd
\* registered, no service, thread_count_ = 0 and canceled_ clear; when a call
\* failed it returns no dispatcher and neither handle is left open.
CreateAllOrNothing ==
  [][/\ (create.pc = "constructed" /\ create'.pc # "constructed") =>
          IF create.results = <<TRUE, TRUE, TRUE>>
            THEN /\ create'.pc = "returned"
                 /\ create'.open = Handles
                 /\ epoll_fd_' = {this}
                 /\ services_' = <<>>
                 /\ thread_count_' = 0
                 /\ ~canceled_'
            ELSE /\ create'.pc = "null"
                 /\ create'.open = {}
     /\ create'.pc = "returned" =>
          /\ create'.results = <<TRUE, TRUE, TRUE>>
          /\ create'.open = Handles
          /\ this \in epoll_fd_'
     /\ create'.pc = "null" =>
          /\ FALSE \in Range(create'.results)
          /\ create'.open = {}]_vars

\* epoll_create failed after the event fd had been opened: Create() returned
\* no dispatcher and the event fd is closed.
CreateAllOrNothingWitness ==
  /\ create.pc = "null"
  /\ create.results = <<TRUE, FALSE>>
  /\ create.open = {}

\* C16: a SetCanceled(true) call that wrote the event fd leaves its wait, and
\* the event fd is reset, only in a state where thread_count_ = 0, whatever
\* other threads call meanwhile.
DrainOnlyWhenQuiescent ==
  [][/\ \A c \in Cancellers :
          (cpc[c] = "woken" /\ cpc'[c] = "done") => thread_count_ = 0
     /\ (event_fd_ > 0 /\ event_fd_' = 0) => thread_count_ = 0]_vars

\* C17: when epoll_wait fails in EnterDispatchLoop, either the thread stays in
\* the loop (EINTR: no event, no callback, thread_count_ and the return value
\* untouched, the loop condition is evaluated next and ends the loop only when
\* canceled_ is set) or it goes to ThreadExit with the error, which is not
\* -EINTR; in ReceiveAndDispatch a wait that returns no event always goes to
\* ThreadExit, with the error (-EINTR included) or -ETIMEDOUT; and ThreadExit
\* decrements thread_count_ before the call returns the value.
WaitErrorHandling ==
  [][\A w \in Workers :
       /\ (pc[w] = "wait" /\ pc'[w] # "wait" /\ call[w] = "EDL") =>
            \/ pc'[w] = "dispatch" /\ events'[w] # <<>>
            \/ /\ pc'[w] = "dispatch" /\ events'[w] = <<>>
               /\ invoked'[w] = NoInvocations
               /\ UNCHANGED <<thread_count_, ret>>
            \/ pc'[w] = "exit" /\ ret'[w] = -EBADF
       /\ (pc[w] = "dispatch" /\ events[w] = <<>> /\ pc'[w] # "dispatch") =>
            pc'[w] = "loop" /\ UNCHANGED <<thread_count_, ret, invoked>>
       /\ (pc[w] = "loop" /\ pc'[w] = "exit") => canceled_
       /\ (pc[w] = "wait" /\ pc'[w] # "wait" /\ call[w] = "RAD") =>
            \/ pc'[w] = "dispatch" /\ events'[w] # <<>>
            \/ /\ pc'[w] = "exit"
               /\ ret'[w] \in {-EINTR, -EBADF, -ETIMEDOUT}
               /\ invoked'[w] = NoInvocations
       /\ (pc[w] = "exit" /\ pc'[w] # "exit") =>
            /\ pc'[w] = "done"
            /\ thread_count_' = thread_count_ - 1
            /\ ret'[w] = ret[w]]_vars

\* A wait of EnterDispatchLoop was interrupted and the thread is still in the
\* loop, while a ReceiveAndDispatch call whose wait was interrupted goes to
\* ThreadExit with -EINTR.
WaitErrorHandlingWitness ==
  \E w, v \in Workers :
    /\ call[w] = "EDL" /\ pc[w] = "dispatch" /\ events[w] = <<>>
    /\ call[v] = "RAD" /\ pc[v] = "exit" /\ ret[v] = -EINTR
    /\ thread_count_ = 2

\* C18: while a thread is inside a service callback, mutex_ is free: another
\* thread that is idle can pass ThreadEnter, one that waits while a registered
\* service is ready can return from the wait, one whose batch holds a further
\* service can invoke its callback, and AddService completes; and a service
\* that is registered and ready while the other thread is in the loop of
\* EnterDispatchLoop is eventually called back by that thread, unless the
\* thread leaves the loop (an error of the wait), although the callbacks of
\* the first thread never return.
CallbackHoldsNoLock ==
  /\ [](\A w, v \in Workers :
          (pc[w] = "callback" /\ v # w) =>
            /\ mutex_ = NoThread
            /\ pc[v] = "idle" => ENABLED EnterDispatchLoop(v)
            /\ (pc[v] = "wait" /\ pending \cap epoll_fd_ # {}) =>
                 ENABLED WaitEvents(v)
            /\ (pc[v] = "dispatch" /\ i[v] <= Len(events[v])) =>
                 ENABLED ForLoop(v)
            /\ \A s \in UdsServices :
                 ENABLED (\E r \in RegistryResults : AddService(s, r)))
  /\ \A s \in UdsServices :
       (/\ pc[Stuck] = "callback"
        /\ call[Free] = "EDL" /\ pc[Free] \in {"loop", "wait", "dispatch", "callback"}
        /\ s \in pending \cap epoll_fd_)
         ~> \/ pc[Free] = "callback" /\ events[Free][i[Free]] = s
            \/ pc[Free] \notin {"loop", "wait", "dispatch", "callback"}

\* The first thread is inside the callback of A, which does not return, and
\* the other thread, in EnterDispatchLoop, is inside the callback of B.
CallbackHoldsNoLockWitness ==
  /\ pc[Stuck] = "callback" /\ events[Stuck][i[Stuck]] = "A"
  /\ call[Free] = "EDL" /\ pc[Free] = "callback"
  /\ events[Free][i[Free]] = "B"
  /\ ~canceled_ /\ thread_count_ = 2

ConcurrentCancelsReturn ==
  (\A c \in Cancellers : cpc[c] = "blocked")
    ~> (\A c \in Cancellers : cpc[c] \in {"done", "idle"})

====
